---- MODULE Spec2Model ----
(***************************************************************************)
(* The sparse coordinate map of src/map.rs (Map<C, T>, its 1-D and 2-D     *)
(* specialisations, text reading and Display) and the day03 solver that    *)
(* runs five traversals over clones of one map.                            *)
(*                                                                         *)
(* Four specifications:                                                    *)
(*   Spec      - a Map under point operations, extent queries and Display  *)
(*   SpecFind  - a Map under set, remove and the find_* searches           *)
(*   SpecRead  - Map::read over a character stream that may fail, followed *)
(*               by Display of the map read                                *)
(*   SpecDay03 - main() and count_trees() of src/bin/day03.rs              *)
(***************************************************************************)
EXTENDS Integers, Sequences, FiniteSets, TLC

VARIABLES
    dim,            \* 1: Map<usize, T>, 2: Map<(usize, usize), T>
    data,           \* Map.data: HashMap<C, T>, a function on the keys present
    fixed_extent,   \* Map.fixed_extent: Option<C>
    op,             \* the operation that ran last, with its arguments
    ret,            \* what that operation returned
    stream,         \* read: the reader's text and the failure it may raise
    consumed,       \* read: characters taken from the stream so far
    lineno,         \* read: the enumerate() index of the next line
    result,         \* read: MapResult<Self> once read has returned
    pc,             \* position of read / of day03's main
    map,            \* day03: the map main() read
    instance,       \* day03: the clone the current recipe traverses
    recipe,         \* day03: index of the current recipe
    extent,         \* day03: count_trees' (imin, imax, jmin, jmax)
    ti, tj,         \* day03: count_trees' i and j
    hit_trees,      \* day03: count_trees' counter
    product         \* day03: main's product

vars == <<dim, data, fixed_extent, op, ret, stream, consumed, lineno, result,
          pc, map, instance, recipe, extent, ti, tj, hit_trees, product>>

editVars == <<dim, data, fixed_extent, op, ret>>
readVars == <<stream, consumed, lineno, result>>
dayVars  == <<map, instance, recipe, extent, ti, tj, hit_trees, product>>

-----------------------------------------------------------------------------
(* Bounds of the model *)

MaxIdx == 3         \* 1-D coordinates are 0..MaxIdx
MaxRow == 1         \* 2-D coordinates are (0..MaxRow, 0..MaxCol)
MaxCol == 1
MaxEntries == 2     \* set() adds a new key only below this many keys
MaxLen == 4         \* longest text handed to read
GridH == 3          \* day03: input grids are GridH x GridW
GridW == 2

-----------------------------------------------------------------------------
(* Option<T> *)

None == <<>>
Some(x) == <<x>>
IsSome(o) == Len(o) = 1
Unwrap(o) == o[1]

MaxOf(a, b) == IF a >= b THEN a ELSE b
MinOf(a, b) == IF a <= b THEN a ELSE b

(* Tiles of the tests' TestTile(char): the tile is its character. *)
Tiles == {"a", "b"}

Coords(d) == IF d = 1 THEN 0..MaxIdx ELSE (0..MaxRow) \X (0..MaxCol)

(* Values a caller assigns to the public field fixed_extent. *)
FixedExtents(d) == IF d = 1 THEN {0, 2} ELSE {<<0, 0>>, <<1, 3>>}

EmptyHashMap == [k \in {} |-> "a"]

-----------------------------------------------------------------------------
(* MapCoordinate::get_extent *)

\* impl MapCoordinate for usize: keys.max().map(|s| s + 1).unwrap_or(0)
get_extent_usize(keys) ==
    IF keys = {} THEN 0
    ELSE (CHOOSE m \in keys : \A k \in keys : k <= m) + 1

\* impl MapCoordinate for (usize, usize): the fold over the keys
RECURSIVE get_extent_pair_loop(_, _, _)
get_extent_pair_loop(keys, imax, jmax) ==
    IF keys = {} THEN <<imax, jmax>>
    ELSE LET k == CHOOSE x \in keys : TRUE
         IN  get_extent_pair_loop(keys \ {k}, MaxOf(imax, k[1] + 1), MaxOf(jmax, k[2] + 1))

\* the fold with jmax taken from the row component as well
get_extent_pair_rows_only(keys) ==
    LET e == get_extent_pair_loop({<<k[1], k[1]>> : k \in keys}, 0, 0)
    IN  e

get_extent_pair(keys) == get_extent_pair_loop(keys, 0, 0)

C_get_extent(d, keys) ==
    IF d = 1 THEN get_extent_usize(keys) ELSE get_extent_pair(keys)

-----------------------------------------------------------------------------
(* Map<C, T> *)

\* Map::get
get(m_data, coord) ==
    IF coord \in DOMAIN m_data THEN Some(m_data[coord]) ELSE None

\* insert that keeps the tile already present (entry().or_insert())
set_keep_present(m_data, coord, value) ==
    [k \in (DOMAIN m_data) \cup {coord} |->
        IF k \in DOMAIN m_data THEN m_data[k] ELSE value]

\* Map::set: HashMap::insert
set(m_data, coord, value) ==
    [k \in (DOMAIN m_data) \cup {coord} |-> IF k = coord THEN value ELSE m_data[k]]

\* Map::remove: HashMap::remove
remove(m_data, coord) ==
    [k \in (DOMAIN m_data) \ {coord} |-> m_data[k]]

\* get_extent that never looks at fixed_extent
get_extent_computed_only(d, m_data, m_fixed) == C_get_extent(d, DOMAIN m_data)

\* Map::get_extent
get_extent(d, m_data, m_fixed) ==
    IF IsSome(m_fixed) THEN Unwrap(m_fixed)
    ELSE C_get_extent(d, DOMAIN m_data)

(* The closures the callers pass to find_*_where. *)
Predicates == {"tile_a", "axis0_zero", "always"}

predicate(p, d, coord, tile) ==
    CASE p = "tile_a"     -> tile = "a"
      [] p = "axis0_zero" -> (IF d = 1 THEN coord = 0 ELSE coord[1] = 0)
      [] p = "always"     -> TRUE
      [] p \in Tiles      -> tile = p       \* find_all / find_one: |_, t| t == pattern

(* HashMap::iter visits the entries in an unspecified order: every        *)
(* enumeration of the keys is a possible one.                              *)
RECURSIVE IterOrders(_)
IterOrders(keys) ==
    IF keys = {} THEN {<<>>}
    ELSE UNION {{<<k>> \o rest : rest \in IterOrders(keys \ {k})} : k \in keys}

\* Map::find_all_where, iterating in the order `order`
RECURSIVE find_all_where(_, _, _, _)
find_all_where(d, m_data, order, p) ==
    IF order = <<>> THEN <<>>
    ELSE LET coord == Head(order)
             rest  == find_all_where(d, m_data, Tail(order), p)
         IN  IF predicate(p, d, coord, m_data[coord]) THEN <<coord>> \o rest ELSE rest

\* find_one_where that returns the first entry without asking the predicate
find_one_where_first_entry(d, m_data, order, p) ==
    IF order = <<>> THEN None ELSE Some(Head(order))

\* Map::find_one_where, iterating in the order `order`
RECURSIVE find_one_where(_, _, _, _)
find_one_where(d, m_data, order, p) ==
    IF order = <<>> THEN None
    ELSE LET coord == Head(order)
         IN  IF predicate(p, d, coord, m_data[coord]) THEN Some(coord)
             ELSE find_one_where(d, m_data, Tail(order), p)

\* Map::find_all
find_all(d, m_data, order, pattern) == find_all_where(d, m_data, order, pattern)

\* Map::find_one
find_one(d, m_data, order, pattern) == find_one_where(d, m_data, order, pattern)

-----------------------------------------------------------------------------
(* to_vecs and Display *)

\* impl Display for TestTile: write!(f, "{}", self.0)
tile_fmt(t) == t

\* Map<usize, T>::to_vecs
to_vecs_1d(m_data, m_fixed) ==
    LET width == get_extent(1, m_data, m_fixed)
    IN  [x \in 1..width |-> get(m_data, x - 1)]

\* Map<(usize, usize), T>::to_vecs
to_vecs_2d(m_data, m_fixed) ==
    LET e == get_extent(2, m_data, m_fixed)
    IN  [x \in 1..e[1] |-> [y \in 1..e[2] |-> get(m_data, <<x - 1, y - 1>>)]]

\* an absent coordinate written as '.', as the day03 input writes it
cell_fmt_dot(o) == IF IsSome(o) THEN tile_fmt(Unwrap(o)) ELSE "."

\* the match in both fmt loops: the tile's Display, or a space
cell_fmt(o) == IF IsSome(o) THEN tile_fmt(Unwrap(o)) ELSE " "

\* impl Display for Map<usize, T>
fmt_1d(m_data, m_fixed) ==
    IF DOMAIN m_data = {} THEN <<>>
    ELSE LET width == get_extent(1, m_data, m_fixed)
         IN  [x \in 1..width |-> cell_fmt(get(m_data, x - 1))]

\* impl Display for Map<(usize, usize), T>: rows i < n, each followed by "\n"
RECURSIVE fmt_2d_rows(_, _, _)
fmt_2d_rows(m_data, e, n) ==
    IF n = 0 THEN <<>>
    ELSE fmt_2d_rows(m_data, e, n - 1)
         \o [y \in 1..e[2] |-> cell_fmt(get(m_data, <<n - 1, y - 1>>))]
         \o <<"\n">>

fmt_2d(m_data, m_fixed) ==
    IF DOMAIN m_data = {} THEN <<>>
    ELSE LET e == get_extent(2, m_data, m_fixed)
         IN  fmt_2d_rows(m_data, e, e[1])

to_vecs(d, m_data, m_fixed) ==
    IF d = 1 THEN to_vecs_1d(m_data, m_fixed) ELSE to_vecs_2d(m_data, m_fixed)

fmt(d, m_data, m_fixed) ==
    IF d = 1 THEN fmt_1d(m_data, m_fixed) ELSE fmt_2d(m_data, m_fixed)

-----------------------------------------------------------------------------
(* TileMap of day03's imports (aoc2020::map::TileMap): the bounding-box    *)
(* extent (imin, imax, jmin, jmax) over the keys; all zero, the default    *)
(* coordinate, for no keys.                                                *)

RECURSIVE TileMap_extent_loop(_, _)
TileMap_extent_loop(keys, acc) ==
    IF keys = {} THEN acc
    ELSE LET k == CHOOSE x \in keys : TRUE
         IN  TileMap_extent_loop(keys \ {k},
                 <<MinOf(acc[1], k[1]), MaxOf(acc[2], k[1]),
                   MinOf(acc[3], k[2]), MaxOf(acc[4], k[2])>>)

\* a box whose minimum is always the origin
TileMap_get_extent_from_origin(keys) ==
    LET e == get_extent_pair(keys)
    IN  IF keys = {} THEN <<0, 0, 0, 0>> ELSE <<0, e[1] - 1, 0, e[2] - 1>>

TileMap_get_extent(keys) ==
    IF keys = {} THEN <<0, 0, 0, 0>>
    ELSE LET k == CHOOSE x \in keys : TRUE
         IN  TileMap_extent_loop(keys \ {k}, <<k[1], k[1], k[2], k[2]>>)

-----------------------------------------------------------------------------
(* Spec: one Map under point operations and extent and display queries *)

Call(name, args) == [name |-> name, args |-> args]

IdleRead == /\ stream = None /\ consumed = 0 /\ lineno = 0 /\ result = None
IdleDay  == /\ map = EmptyHashMap /\ instance = EmptyHashMap /\ recipe = 0
            /\ extent = <<0, 0, 0, 0>> /\ ti = 0 /\ tj = 0 /\ hit_trees = 0 /\ product = 0

\* Map::new
Init ==
    /\ dim \in {1, 2}
    /\ data = EmptyHashMap
    /\ fixed_extent = None
    /\ op = Call("new", <<>>)
    /\ ret = None
    /\ pc = "edit"
    /\ IdleRead
    /\ IdleDay

Set(coord, value) ==
    /\ coord \in DOMAIN data \/ Cardinality(DOMAIN data) < MaxEntries
    /\ data' = set(data, coord, value)
    /\ op' = Call("set", <<coord, value>>)
    /\ ret' = None
    /\ UNCHANGED <<dim, fixed_extent, pc, readVars, dayVars>>

Remove(coord) ==
    /\ data' = remove(data, coord)
    /\ op' = Call("remove", <<coord>>)
    /\ ret' = None
    /\ UNCHANGED <<dim, fixed_extent, pc, readVars, dayVars>>

Get(coord) ==
    /\ ret' = get(data, coord)
    /\ op' = Call("get", <<coord>>)
    /\ UNCHANGED <<dim, data, fixed_extent, pc, readVars, dayVars>>

\* map.fixed_extent = e (the field is pub)
AssignFixedExtent(e) ==
    /\ fixed_extent' = e
    /\ op' = Call("fixed_extent", <<e>>)
    /\ ret' = None
    /\ UNCHANGED <<dim, data, pc, readVars, dayVars>>

GetExtent ==
    /\ ret' = get_extent(dim, data, fixed_extent)
    /\ op' = Call("get_extent", <<>>)
    /\ UNCHANGED <<dim, data, fixed_extent, pc, readVars, dayVars>>

FindAllWhere(p) ==
    /\ \E order \in IterOrders(DOMAIN data) : ret' = find_all_where(dim, data, order, p)
    /\ op' = Call("find_all_where", <<p>>)
    /\ UNCHANGED <<dim, data, fixed_extent, pc, readVars, dayVars>>

FindOneWhere(p) ==
    /\ \E order \in IterOrders(DOMAIN data) : ret' = find_one_where(dim, data, order, p)
    /\ op' = Call("find_one_where", <<p>>)
    /\ UNCHANGED <<dim, data, fixed_extent, pc, readVars, dayVars>>

FindAll(pattern) ==
    /\ \E order \in IterOrders(DOMAIN data) : ret' = find_all(dim, data, order, pattern)
    /\ op' = Call("find_all", <<pattern>>)
    /\ UNCHANGED <<dim, data, fixed_extent, pc, readVars, dayVars>>

FindOne(pattern) ==
    /\ \E order \in IterOrders(DOMAIN data) : ret' = find_one(dim, data, order, pattern)
    /\ op' = Call("find_one", <<pattern>>)
    /\ UNCHANGED <<dim, data, fixed_extent, pc, readVars, dayVars>>

ToVecs ==
    /\ ret' = to_vecs(dim, data, fixed_extent)
    /\ op' = Call("to_vecs", <<>>)
    /\ UNCHANGED <<dim, data, fixed_extent, pc, readVars, dayVars>>

Fmt ==
    /\ ret' = fmt(dim, data, fixed_extent)
    /\ op' = Call("fmt", <<>>)
    /\ UNCHANGED <<dim, data, fixed_extent, pc, readVars, dayVars>>

\* the bounding-box query on the 2-D keys
BoundingBox ==
    /\ dim = 2
    /\ ret' = TileMap_get_extent(DOMAIN data)
    /\ op' = Call("bounding_box", <<>>)
    /\ UNCHANGED <<dim, data, fixed_extent, pc, readVars, dayVars>>

Next ==
    \/ \E coord \in Coords(dim), value \in Tiles : Set(coord, value)
    \/ \E coord \in Coords(dim) : Remove(coord)
    \/ \E coord \in Coords(dim) : Get(coord)
    \/ \E e \in {None} \cup {Some(x) : x \in FixedExtents(dim)} : AssignFixedExtent(e)
    \/ GetExtent
    \/ ToVecs
    \/ Fmt
    \/ BoundingBox

Spec == Init /\ [][Next]_vars

(* SpecFind: one Map under set, remove and the searches *)
NextFind ==
    \/ \E coord \in Coords(dim), value \in Tiles : Set(coord, value)
    \/ \E coord \in Coords(dim) : Remove(coord)
    \/ \E p \in Predicates : FindAllWhere(p)
    \/ \E p \in Predicates : FindOneWhere(p)
    \/ \E pattern \in Tiles : FindAll(pattern)
    \/ \E pattern \in Tiles : FindOne(pattern)

SpecFind == Init /\ [][NextFind]_vars

-----------------------------------------------------------------------------
(* Properties of Spec *)

Present(m_data, c) == c \in DOMAIN m_data

\* the dense width of one axis: 0 for no keys, else the largest value + 1
IsAxisWidth(w, vals) ==
    IF vals = {} THEN w = 0
    ELSE /\ w - 1 \in vals
         /\ \A x \in vals : x + 1 <= w

IsDenseWidth(d, e, keys) ==
    IF d = 1 THEN IsAxisWidth(e, keys)
    ELSE /\ IsAxisWidth(e[1], {k[1] : k \in keys})
         /\ IsAxisWidth(e[2], {k[2] : k \in keys})

(* C1: after set(c, v), get(c) is Some(v); after remove(c), get(c) is      *)
(* None; set overwrites, remove of an absent key changes nothing, neither  *)
(* changes what any other coordinate holds, no query changes the entries,  *)
(* and get(c) returns what the latest set or remove of c left there.       *)
C1_SetRemoveGet ==
    [][ /\ op'.name = "set" =>
             LET c == op'.args[1]
                 v == op'.args[2]
             IN  /\ Present(data', c) /\ data'[c] = v
                 /\ \A o \in Coords(dim) \ {c} :
                        /\ Present(data', o) = Present(data, o)
                        /\ Present(data, o) => data'[o] = data[o]
        /\ op'.name = "remove" =>
             LET c == op'.args[1]
             IN  /\ ~Present(data', c)
                 /\ ~Present(data, c) => data' = data
                 /\ \A o \in Coords(dim) \ {c} :
                        /\ Present(data', o) = Present(data, o)
                        /\ Present(data, o) => data'[o] = data[o]
        /\ op'.name \notin {"set", "remove"} => data' = data
        /\ op'.name = "get" =>
             LET c == op'.args[1]
             IN  /\ Present(data, c)  => ret' = Some(data[c])
                 /\ ~Present(data, c) => ret' = None
                 /\ (op.name = "set" /\ op.args[1] = c) => ret' = Some(op.args[2])
                 /\ (op.name = "remove" /\ op.args[1] = c) => ret' = None
      ]_vars

\* a get that returns the overwritten value while another key is present
C1_Witness ==
    /\ op.name = "get"
    /\ ret = Some("b")
    /\ Cardinality(DOMAIN data) >= 2

(* C2: with fixed_extent = None, get_extent() is per axis the largest key  *)
(* component + 1, and the all-zero coordinate for a map without keys;      *)
(* keys {(1,2),(4,1)} give (5,3), with (8,8) added (9,9).                  *)
C2_DenseWidth ==
    /\ (op.name = "get_extent" /\ fixed_extent = None)
          => IsDenseWidth(dim, ret, DOMAIN data)
    /\ C_get_extent(2, {<<1, 2>>, <<4, 1>>}) = <<5, 3>>
    /\ C_get_extent(2, {<<1, 2>>, <<4, 1>>, <<8, 8>>}) = <<9, 9>>
    /\ C_get_extent(1, {1, 4, 8}) = 9
    /\ C_get_extent(1, {}) = 0
    /\ C_get_extent(2, {}) = <<0, 0>>

\* get_extent on a 2-D map whose two keys give the two axes' maxima
C2_Witness ==
    /\ op.name = "get_extent"
    /\ fixed_extent = None
    /\ dim = 2
    /\ Cardinality(DOMAIN data) = 2
    /\ \A k \in DOMAIN data : ret # <<k[1] + 1, k[2] + 1>>

(* C3: get_extent() returns fixed_extent's value whenever it is Some,      *)
(* else the extent of the entries as they are at the call (so a call after *)
(* a set or remove reflects it, and two calls in a row agree); it changes  *)
(* neither the entries nor fixed_extent.                                   *)
C3_FixedExtent ==
    [][ op'.name = "get_extent" =>
          /\ data' = data
          /\ fixed_extent' = fixed_extent
          /\ IsSome(fixed_extent) => ret' = Unwrap(fixed_extent)
          /\ fixed_extent = None => IsDenseWidth(dim, ret', DOMAIN data)
          /\ op.name = "get_extent" => ret' = ret
      ]_vars

\* get_extent answering the fixed extent although the entries give another
C3_Witness ==
    /\ op.name = "get_extent"
    /\ IsSome(fixed_extent)
    /\ DOMAIN data # {}
    /\ ~IsDenseWidth(dim, ret, DOMAIN data)

\* the dense grid written row by row, a newline after every row
RECURSIVE GridText(_)
GridText(rows) ==
    IF rows = <<>> THEN <<>>
    ELSE [y \in 1..Len(Head(rows)) |-> cell_fmt(Head(rows)[y])] \o <<"\n">>
         \o GridText(Tail(rows))

(* C6: for every 2-D map, with or without a fixed_extent, Display writes   *)
(* exactly the rows of to_vecs(), each followed by a newline.              *)
C6_DisplayIsDenseGrid ==
    (op.name = "fmt" /\ dim = 2) => ret = GridText(to_vecs_2d(data, fixed_extent))

Matches(p) == {c \in DOMAIN data : predicate(p, dim, c, data[c])}

(* C7: find_all_where(p) returns every matching coordinate exactly once    *)
(* and nothing else; find_one_where(p) returns Some matching coordinate    *)
(* when there is one and None when there is none; likewise find_all and    *)
(* find_one with tile equality.                                            *)
C7_Find ==
    /\ op.name \in {"find_all_where", "find_all"} =>
          /\ \A x, y \in 1..Len(ret) : ret[x] = ret[y] => x = y
          /\ {ret[x] : x \in 1..Len(ret)} = Matches(op.args[1])
    /\ op.name \in {"find_one_where", "find_one"} =>
          IF Matches(op.args[1]) = {} THEN ret = None
          ELSE IsSome(ret) /\ Unwrap(ret) \in Matches(op.args[1])

\* a search that had to pass over an entry that does not match
C7_Witness ==
    /\ op.name = "find_one"
    /\ IsSome(ret)
    /\ Cardinality(DOMAIN data) = 2
    /\ Cardinality(Matches(op.args[1])) = 1

-----------------------------------------------------------------------------
(* SpecRead: Map::read from a stream, then Display of the map read *)

LF == "\n"
CR == "\r"

(* Characters of the texts read. *)
Chars == {"a", "b", " ", LF, CR}

Texts == UNION {[1..n -> Chars] : n \in 0..MaxLen}

(* std::io::Error values the reader may raise. *)
IoErrors == {"BrokenPipe", "InvalidData"}

(* A reader: its text and, when it fails, after how many characters it    *)
(* does so and the error it raises.                                       *)
Streams ==
    {[text |-> s, fail |-> f] :
        s \in Texts,
        f \in {None} \cup {Some([at |-> k, source |-> e]) : k \in 0..MaxLen, e \in IoErrors}}

\* impl MapTile for TestTile: from_char
from_char(c) == IF c = " " THEN None ELSE Some(c)

Ok(m_data, m_fixed) == [tag |-> "Ok", map |-> [data |-> m_data, fixed_extent |-> m_fixed]]
Err(e) == [tag |-> "Err", error |-> e]

\* MapError::Io { source }
Io(source) == [variant |-> "Io", source |-> source]

\* characters the reader hands over before it fails
Available(st) ==
    IF st.fail = None THEN Len(st.text) ELSE MinOf(Unwrap(st.fail).at, Len(st.text))

\* BufRead::read_until(b'\n'): the next line feed among the available characters, or 0
NextLineFeed(st, from) ==
    LET found == {q \in (from + 1)..Available(st) : st.text[q] = LF}
    IN  IF found = {} THEN 0 ELSE CHOOSE q \in found : \A r \in found : q <= r

\* BufRead::lines on a line that ended in "\n": the "\n" is dropped, then one "\r"
StripLineEnd(raw) ==
    IF Len(raw) > 0 /\ raw[Len(raw)] = CR THEN SubSeq(raw, 1, Len(raw) - 1) ELSE raw

\* the inner loop of the 2-D read: for (j, c) in line.chars().enumerate(),
\* with j counted from `first`
RECURSIVE insert_chars_2d(_, _, _, _, _)
insert_chars_2d(m_data, i, line, n, first) ==
    IF n = 0 THEN m_data
    ELSE LET before == insert_chars_2d(m_data, i, line, n - 1, first)
             t == from_char(line[n])
         IN  IF IsSome(t) THEN set(before, <<i, first + n - 1>>, Unwrap(t)) ELSE before

\* the loop with the columns counted from 1
insert_line_2d_from_one(m_data, i, line) == insert_chars_2d(m_data, i, line, Len(line), 1)

\* enumerate() counts from 0
insert_line_2d(m_data, i, line) == insert_chars_2d(m_data, i, line, Len(line), 0)

\* the loop of the 1-D read: for (i, c) in s.chars().enumerate()
RECURSIVE insert_chars_1d(_, _, _)
insert_chars_1d(m_data, s, n) ==
    IF n = 0 THEN m_data
    ELSE LET before == insert_chars_1d(m_data, s, n - 1)
             t == from_char(s[n])
         IN  IF IsSome(t) THEN set(before, n - 1, Unwrap(t)) ELSE before

\* line.context(Io)? on a failed line: the partial map is returned as if complete
on_line_error_keep(m_data, source) == Ok(m_data, None)

\* line.context(Io)? on a failed line: read returns the error
on_line_error(m_data, source) == Err(Io(source))

IdleEdit == /\ fixed_extent = None /\ op = Call("read", <<>>) /\ ret = None

InitRead ==
    /\ dim \in {1, 2}
    /\ stream \in Streams
    /\ stream.fail # None => Unwrap(stream.fail).at <= Len(stream.text)
    /\ data = EmptyHashMap              \* let mut data = HashMap::new()
    /\ consumed = 0
    /\ lineno = 0
    /\ result = None
    /\ pc = "read"
    /\ IdleEdit
    /\ IdleDay

\* 2-D: lines() yields Ok(line); its characters are decoded and inserted
ReadLine ==
    /\ pc = "read" /\ dim = 2
    /\ LET p == NextLineFeed(stream, consumed)
       IN  \/ /\ p # 0
              /\ data' = insert_line_2d(data, lineno,
                             StripLineEnd(SubSeq(stream.text, consumed + 1, p - 1)))
              /\ consumed' = p
           \/ /\ p = 0 /\ stream.fail = None /\ consumed < Len(stream.text)
              /\ data' = insert_line_2d(data, lineno,
                             SubSeq(stream.text, consumed + 1, Len(stream.text)))
              /\ consumed' = Len(stream.text)
    /\ lineno' = lineno + 1
    /\ UNCHANGED <<dim, stream, result, pc, fixed_extent, op, ret, dayVars>>

\* 2-D: lines() yields Err: read returns through `?`, the local map is dropped
ReadLineErr ==
    /\ pc = "read" /\ dim = 2
    /\ NextLineFeed(stream, consumed) = 0
    /\ stream.fail # None
    /\ result' = on_line_error(data, Unwrap(stream.fail).source)
    /\ consumed' = Available(stream)
    /\ data' = EmptyHashMap
    /\ pc' = "returned"
    /\ UNCHANGED <<dim, stream, lineno, fixed_extent, op, ret, dayVars>>

\* 2-D: lines() is exhausted: Ok(Map { data, fixed_extent: None })
ReadEnd ==
    /\ pc = "read" /\ dim = 2
    /\ stream.fail = None
    /\ consumed = Len(stream.text)
    /\ result' = Ok(data, None)
    /\ data' = EmptyHashMap
    /\ pc' = "returned"
    /\ UNCHANGED <<dim, stream, consumed, lineno, fixed_extent, op, ret, dayVars>>

\* 1-D: read_to_end succeeds, every character is decoded and inserted
ReadToEnd ==
    /\ pc = "read" /\ dim = 1
    /\ stream.fail = None
    /\ result' = Ok(insert_chars_1d(data, stream.text, Len(stream.text)), None)
    /\ consumed' = Len(stream.text)
    /\ data' = EmptyHashMap
    /\ pc' = "returned"
    /\ UNCHANGED <<dim, stream, lineno, fixed_extent, op, ret, dayVars>>

\* 1-D: read_to_end fails: reader.read_to_end(&mut buf).context(Io)?
ReadToEndErr ==
    /\ pc = "read" /\ dim = 1
    /\ stream.fail # None
    /\ result' = Err(Io(Unwrap(stream.fail).source))
    /\ consumed' = Available(stream)
    /\ data' = EmptyHashMap
    /\ pc' = "returned"
    /\ UNCHANGED <<dim, stream, lineno, fixed_extent, op, ret, dayVars>>

\* format!("{}", map) on the map read
DisplayRead ==
    /\ pc = "returned"
    /\ result.tag = "Ok"
    /\ ret' = fmt(dim, result.map.data, result.map.fixed_extent)
    /\ op' = Call("fmt", <<>>)
    /\ pc' = "displayed"
    /\ UNCHANGED <<dim, data, fixed_extent, stream, consumed, lineno, result, dayVars>>

NextRead ==
    \/ ReadLine
    \/ ReadLineErr
    \/ ReadEnd
    \/ ReadToEnd
    \/ ReadToEndErr
    \/ DisplayRead

SpecRead == InitRead /\ [][NextRead]_vars

-----------------------------------------------------------------------------
(* Properties of SpecRead *)

\* The lines of a text, told from the positions of its characters: a line
\* ends at "\n", and a "\r" right before that "\n" belongs to the line end.
LineFeeds(s) == {p \in 1..Len(s) : s[p] = LF}
RowOf(s, p) == Cardinality({q \in LineFeeds(s) : q < p})
RowStart(s, p) ==
    LET before == {q \in LineFeeds(s) : q < p}
    IN  IF before = {} THEN 0 ELSE CHOOSE q \in before : \A r \in before : r <= q
ColOf(s, p) == p - RowStart(s, p) - 1
IsLineChar(s, p) ==
    /\ s[p] # LF
    /\ ~(s[p] = CR /\ p < Len(s) /\ s[p + 1] = LF)
NumLines(s) ==
    Cardinality(LineFeeds(s)) + (IF Len(s) > 0 /\ s[Len(s)] # LF THEN 1 ELSE 0)
LinePositions(s, i) == {p \in 1..Len(s) : IsLineChar(s, p) /\ RowOf(s, p) = i}
TextLine(s, i) ==
    LET first == IF i = 0 THEN 0
                 ELSE CHOOSE q \in LineFeeds(s) : RowOf(s, q) = i - 1
    IN  [j \in 1..Cardinality(LinePositions(s, i)) |-> s[first + j]]
TextLines(s) == [x \in 1..NumLines(s) |-> TextLine(s, x - 1)]

ReadReturned == pc \in {"returned", "displayed"}

(* C4: after a successful 2-D read, get((i, j)) is Some(t) exactly when    *)
(* line i of the text has a j-th character that from_char maps to Some(t), *)
(* and None otherwise; after a 1-D read the same with the index of the     *)
(* character in the whole text as the only axis; fixed_extent is None.     *)
C4_ReadPlacesTiles ==
    (ReadReturned /\ result.tag = "Ok") =>
        LET s == stream.text
            m == result.map
        IN  /\ m.fixed_extent = None
            /\ dim = 2 =>
                /\ DOMAIN m.data \subseteq (0..Len(s)) \X (0..Len(s))
                /\ \A i, j \in 0..Len(s) :
                     LET at == {p \in LinePositions(s, i) : ColOf(s, p) = j}
                     IN  IF at = {} THEN get(m.data, <<i, j>>) = None
                         ELSE \A p \in at : get(m.data, <<i, j>>) = from_char(s[p])
            /\ dim = 1 =>
                /\ DOMAIN m.data \subseteq 0..Len(s)
                /\ \A i \in 0..Len(s) :
                     get(m.data, i) = IF i < Len(s) THEN from_char(s[i + 1]) ELSE None

\* a 2-D read of two lines with a blank in the first and a tile in the second
C4_Witness ==
    /\ ReadReturned /\ result.tag = "Ok" /\ dim = 2
    /\ NumLines(stream.text) = 2
    /\ " " \in {stream.text[p] : p \in LinePositions(stream.text, 0)}
    /\ \E k \in DOMAIN result.map.data : k[1] = 1 /\ k[2] = 1

IsRectangular(lines) == \A x, y \in 1..Len(lines) : Len(lines[x]) = Len(lines[y])
HasTile(cs) == \E c \in cs : from_char(c) # None

\* the block's last row and last column each hold a character that is a tile
NoTrailingBlank(lines) ==
    /\ Len(lines) > 0
    /\ Len(lines[1]) > 0
    /\ HasTile({lines[Len(lines)][y] : y \in 1..Len(lines[Len(lines)])})
    /\ HasTile({lines[x][Len(lines[x])] : x \in 1..Len(lines)})

RECURSIVE JoinLines(_)
JoinLines(lines) ==
    IF lines = <<>> THEN <<>> ELSE Head(lines) \o <<LF>> \o JoinLines(Tail(lines))

(* C5: round trip. 2-D: when the lines of the text form a rectangle whose  *)
(* last row and last column each hold a tile, Display of the map read is   *)
(* every line followed by a newline, the last one included. 1-D: when the  *)
(* text does not end in a blank, Display of the map read is the text.      *)
C5_RoundTrip ==
    pc = "displayed" =>
        LET s == stream.text
            lines == TextLines(s)
        IN  /\ (dim = 2 /\ IsRectangular(lines) /\ NoTrailingBlank(lines))
                  => ret = JoinLines(lines)
            /\ (dim = 1 /\ (s = <<>> \/ from_char(s[Len(s)]) # None))
                  => ret = s

\* a 2-D block of two rows with a blank cell, read and displayed
C5_Witness ==
    /\ pc = "displayed" /\ dim = 2
    /\ Len(TextLines(stream.text)) = 2
    /\ IsRectangular(TextLines(stream.text))
    /\ NoTrailingBlank(TextLines(stream.text))
    /\ " " \in {stream.text[p] : p \in 1..Len(stream.text)}
    /\ ret = JoinLines(TextLines(stream.text))

\* the tiles of a text, counted without regard to where they go
TileCount(s, d) ==
    Cardinality({p \in 1..Len(s) :
        /\ from_char(s[p]) # None
        /\ d = 2 => IsLineChar(s, p)})

(* C8: read returns Err(Io) wrapping the reader's error whenever the       *)
(* reader fails, before the first line or after lines already decoded, and *)
(* then no map; it returns a map only when the reader did not fail, after  *)
(* the whole text was consumed, holding the tiles of every line; nothing   *)
(* is read past a failure and no map is visible before read returns.       *)
C8_ReadAtomic ==
    /\ pc = "read" => result = None
    /\ ReadReturned =>
          /\ stream.fail # None =>
                /\ result = Err(Io(Unwrap(stream.fail).source))
                /\ consumed <= Unwrap(stream.fail).at
          /\ stream.fail = None =>
                /\ result.tag = "Ok"
                /\ consumed = Len(stream.text)
                /\ Cardinality(DOMAIN result.map.data) = TileCount(stream.text, dim)

\* a 2-D read that fails after a first line with a tile was decoded
C8_Witness ==
    /\ pc = "returned" /\ dim = 2
    /\ result.tag = "Err"
    /\ lineno >= 1
    /\ stream.text[1] \in Tiles

-----------------------------------------------------------------------------
(* SpecDay03: main() and count_trees() of src/bin/day03.rs *)

\* impl Tile for MapTile: from_char
MapTile_from_char(c) == IF c = "#" THEN Some("Tree") ELSE None

\* let recipes = vec![(1, 1), (1, 3), (1, 5), (1, 7), (2, 1)]: (di, dj)
recipes == <<<<1, 1>>, <<1, 3>>, <<1, 5>>, <<1, 7>>, <<2, 1>>>>

(* Input files: GridH lines of GridW characters, '#' a tree. *)
Grids == [1..GridH -> [1..GridW -> {"#", "."}]]

\* TileMap::read: the tile of every character that from_char accepts, at (line, column)
TileMap_read(grid) ==
    LET keys == {k \in (0..(Len(grid) - 1)) \X (0..(GridW - 1)) :
                    MapTile_from_char(grid[k[1] + 1][k[2] + 1]) # None}
    IN  [k \in keys |-> Unwrap(MapTile_from_char(grid[k[1] + 1][k[2] + 1]))]

\* TileMap::get
TileMap_get(m, coord) == IF coord \in DOMAIN m THEN Some(m[coord]) ELSE None

\* TileMap::insert
TileMap_insert(m, coord, value) ==
    [k \in (DOMAIN m) \cup {coord} |-> IF k = coord THEN value ELSE m[k]]

\* one instance made before the loop and used by every recipe
instance_shared(original, previous, r) == IF r = 1 THEN original ELSE previous

\* let mut instance = map.clone()
instance_for_recipe(original, previous, r) == original

InitDay03 ==
    /\ stream \in Grids
    /\ map = TileMap_read(stream)
    /\ instance = EmptyHashMap
    /\ recipe = 1
    /\ product = 1
    /\ extent = <<0, 0, 0, 0>>
    /\ ti = 0 /\ tj = 0 /\ hit_trees = 0
    /\ pc = "recipes"
    /\ dim = 2 /\ data = EmptyHashMap /\ fixed_extent = None
    /\ op = Call("main", <<>>) /\ ret = None
    /\ consumed = 0 /\ lineno = 0 /\ result = None

dayIdle == <<dim, data, fixed_extent, op, ret, stream, consumed, lineno, result>>

\* the loop head of main and the entry of count_trees
StartRecipe ==
    /\ pc = "recipes"
    /\ recipe <= Len(recipes)
    /\ LET fresh == instance_for_recipe(map, instance, recipe)
       IN  /\ instance' = fresh
           /\ extent' = TileMap_get_extent(DOMAIN fresh)
    /\ ti' = 0 /\ tj' = 0 /\ hit_trees' = 0
    /\ pc' = "count_trees"
    /\ UNCHANGED <<map, recipe, product, dayIdle>>

\* one iteration of count_trees' while loop
Step ==
    /\ pc = "count_trees"
    /\ ti <= extent[2]
    /\ LET current == TileMap_get(instance, <<ti, tj>>)
           di == recipes[recipe][1]
           dj == recipes[recipe][2]
       IN  /\ \/ /\ current = None
                 /\ instance' = TileMap_insert(instance, <<ti, tj>>, "PathEmpty")
                 /\ hit_trees' = hit_trees
                 /\ pc' = pc
              \/ /\ current = Some("Tree")
                 /\ instance' = TileMap_insert(instance, <<ti, tj>>, "PathTree")
                 /\ hit_trees' = hit_trees + 1
                 /\ pc' = pc
              \/ /\ current \notin {None, Some("Tree")}      \* unreachable!()
                 /\ pc' = "panic"
                 /\ UNCHANGED <<instance, hit_trees>>
           /\ ti' = IF pc' = "panic" THEN ti ELSE ti + di
           /\ tj' = IF pc' = "panic" THEN tj ELSE (tj + dj) % (extent[4] + 1)
    /\ UNCHANGED <<map, recipe, product, extent, dayIdle>>

\* count_trees returns; product *= hit_trees
FinishRecipe ==
    /\ pc = "count_trees"
    /\ ti > extent[2]
    /\ product' = product * hit_trees
    /\ recipe' = recipe + 1
    /\ pc' = "recipes"
    /\ UNCHANGED <<map, instance, extent, ti, tj, hit_trees, dayIdle>>

\* the loop over the recipes is over; main returns Ok(())
Finish ==
    /\ pc = "recipes"
    /\ recipe > Len(recipes)
    /\ pc' = "done"
    /\ UNCHANGED <<dayVars, dayIdle>>

NextDay03 ==
    \/ StartRecipe
    \/ Step
    \/ FinishRecipe
    \/ Finish

SpecDay03 == InitDay03 /\ [][NextDay03]_vars

-----------------------------------------------------------------------------
(* Properties of SpecDay03 *)

\* the Tree tiles of the input, told from the grid
IsAsRead(m) ==
    /\ \A k \in DOMAIN m : m[k] = "Tree"
    /\ DOMAIN m = {k \in (0..(GridH - 1)) \X (0..(GridW - 1)) : stream[k[1] + 1][k[2] + 1] = "#"}

\* the positions the current recipe has stepped on so far
Visited ==
    LET di == recipes[recipe][1]
        dj == recipes[recipe][2]
    IN  {<<n * di, (n * dj) % (extent[4] + 1)>> : n \in 0..((ti \div di) - 1)}

(* C10: every recipe traverses its own clone of the map read: the path     *)
(* tiles of a traversal are in its clone alone, only where it has stepped, *)
(* the original map stays the map as read, and every traversal starts from *)
(* exactly the Tree tiles of the input.                                    *)
C10_ClonePerRecipe ==
    /\ IsAsRead(map)
    /\ pc # "panic"
    /\ (pc = "count_trees" /\ ti = 0) => IsAsRead(instance)
    /\ pc = "count_trees" =>
          \A k \in (DOMAIN instance) \cup (DOMAIN map) :
              IF k \in Visited
              THEN /\ k \in DOMAIN instance
                   /\ instance[k] = (IF k \in DOMAIN map THEN "PathTree" ELSE "PathEmpty")
              ELSE /\ k \in DOMAIN instance /\ k \in DOMAIN map
                   /\ instance[k] = "Tree"
    /\ pc = "done" => recipe = Len(recipes) + 1

\* a later recipe under way after an earlier one left path tiles in its clone
C10_Witness ==
    /\ pc = "count_trees"
    /\ recipe = 3
    /\ ti = 2
    /\ hit_trees = 1
    /\ product > 0
    /\ \E k \in DOMAIN instance : instance[k] = "PathEmpty"

====
